---- MODULE Spec2Model ----
(***************************************************************************)
(* Budget / transaction consistency engine of gestionbudgetback.           *)
(*                                                                         *)
(* The persistent collections (accounts, transactions, budgets, goals) are *)
(* the state.  The operations are the document methods and hooks of the    *)
(* Mongoose models (Transaction save with its pre/post hooks, Account      *)
(* save, Budget.updateSpent, Goal.addContribution, Goal.processAutoSaves)  *)
(* and the Express route handlers that call them.  Money is counted in     *)
(* integer units of 0.01, dates in days.                                   *)
(***************************************************************************)
EXTENDS Integers, Sequences, FiniteSets, TLC

(* ----------------------------- bounds --------------------------------- *)
MaxEntries == 2
MaxAmount == 2
MaxOps == 3
MaxDate == 4
MaxNow == 2

(* ------------------------- program constants -------------------------- *)
\* transactionSchema.amount min 0.01, in units of 0.01
MinAmount == 1
\* accountSchema.balance min 0
MinBalance == 0

(* --------------------------- fixed universe --------------------------- *)
Users == {"u1", "u2"}
\* the account documents of the database; "a0" is an id no account has
AccountIds == {"a1", "a2"}
GhostAccount == "a0"
\* transferAccountId left undefined
NoAccount == "none"
\* an undefined field of a document
Undefined == "undefined"
AccountUser == [a \in AccountIds |-> "u1"]
AccountType == [a \in AccountIds |-> IF a = "a1" THEN "checking" ELSE "credit"]
InitialBalance == [a \in AccountIds |-> IF a = "a1" THEN 3 ELSE 2]
Categories == {"c1", "c2"}
\* categorySchema: c1 is a default category (userId null), c2 is u2's own
CategoryDefault == [c \in Categories |-> c = "c1"]
CategoryUser == [c \in Categories |-> IF c = "c1" THEN "null" ELSE "u2"]
GhostCategory == "c0"
TransactionTypes == {"income", "expense", "transfer"}
EntryIds == 1..MaxEntries

VARIABLES
    accounts,   \* Account collection: id -> balance
    ledger,     \* Transaction collection: set of documents
    nextId,     \* next fresh transaction _id
    response,   \* outcome of the last operation
    nops,       \* number of operations performed
    before,     \* history: the account balances before the last operation
    budgets,    \* Budget collection: set of documents
    goals,      \* Goal collection: id -> document
    now,        \* the clock, new Date()
    req         \* the requests in flight: process -> position and locals

vars == <<accounts, ledger, nextId, response, nops, before, budgets, goals,
          now, req>>

ledgerVars == <<accounts, ledger, nextId, before>>

(* ------------------------------ helpers ------------------------------- *)
Doc(id) == CHOOSE d \in ledger : d.id = id

HasDoc(id) == \E d \in ledger : d.id = id

Resp(op, id, status) == [op |-> op, id |-> id, status |-> status]

(* accountSchema balance validator (min 0) run by the built-in validation  *)
(* hook of save(), before the schema's own pre("save")                     *)
AccountValid(type, balance) == balance >= MinBalance

(* accountSchema.pre("save"): a negative credit balance becomes absolute   *)
AccountPreSave(type, balance) ==
    IF type = "credit" /\ balance < 0 THEN 0 - balance ELSE balance

(* account.save(): result is <<ok, new collection>>                        *)
AccountSave(accts, a, balance) ==
    IF AccountValid(AccountType[a], balance)
    THEN <<TRUE, [accts EXCEPT ![a] = AccountPreSave(AccountType[a], balance)]>>
    ELSE <<FALSE, accts>>

(* Account.findByIdAndUpdate(id, {$inc: {balance: d}}): no validators run, *)
(* an unknown id updates nothing                                           *)
IncBalance(accts, a, d) ==
    IF a \in AccountIds THEN [accts EXCEPT ![a] = @ + d] ELSE accts

(* transactionSchema validators: required type of the enum, amount >= 0.01 *)
TransactionValid(doc) ==
    /\ doc.type \in TransactionTypes
    /\ doc.amount >= MinAmount

(* transactionSchema.pre("save"): TRUE when the hook calls next() without  *)
(* an error                                                                *)
TransactionPreSave(doc) ==
    /\ ~(doc.type = "transfer" /\ doc.transferAccountId = NoAccount)
    /\ ~(doc.type = "transfer" /\ doc.transferAccountId = doc.accountId)

(* the hook applied for the completed entries only                         *)
TransactionPostSaveCompleted(accts, doc) ==
    IF doc.accountId \notin AccountIds \/ doc.status # "completed" THEN accts
    ELSE LET a == doc.accountId
             b == accts[a]
         IN  CASE doc.type = "income" -> AccountSave(accts, a, b + doc.amount)[2]
               [] doc.type = "expense" -> AccountSave(accts, a, b - doc.amount)[2]
               [] OTHER -> AccountSave(accts, a, b)[2]

(* transactionSchema.post("save"): the accounts after the hook; every      *)
(* error is caught inside the hook                                         *)
TransactionPostSave(accts, doc) ==
    IF doc.accountId \notin AccountIds THEN accts
    ELSE LET a == doc.accountId
             b == accts[a]
         IN  CASE doc.type = "income" -> AccountSave(accts, a, b + doc.amount)[2]
               [] doc.type = "expense" -> AccountSave(accts, a, b - doc.amount)[2]
               [] doc.type = "transfer" ->
                    LET t == doc.transferAccountId
                    IN  IF t \in AccountIds
                        THEN LET r == AccountSave(accts, t, accts[t] + doc.amount)
                             IN  IF r[1]
                                 THEN AccountSave(r[2], a, b - doc.amount)[2]
                                 ELSE accts
                        ELSE AccountSave(accts, a, b - doc.amount)[2]
               [] OTHER -> AccountSave(accts, a, b)[2]

(* document.save(): <<status, ledger, accounts>> for a new or modified doc *)
TransactionSave(led, accts, doc) ==
    IF ~TransactionValid(doc) \/ ~TransactionPreSave(doc)
    THEN <<"error", led, accts>>
    ELSE <<"ok",
           {d \in led : d.id # doc.id} \cup {doc},
           TransactionPostSave(accts, doc)>>

(* ------------------------------ inputs -------------------------------- *)
InputAccounts == AccountIds \cup {GhostAccount}
InputAmounts == 1..MaxAmount

NewDocs(types) ==
    {f \in [userId : {"u1"}, accountId : AccountIds, categoryId : {"c1"},
            type : types, amount : InputAmounts, date : {1},
            transferAccountId : AccountIds \cup {GhostAccount, NoAccount},
            status : {"completed"}] :
        f.type # "transfer" => f.transferAccountId = NoAccount}

Bodies ==
    [accountId : InputAccounts, categoryId : {"c1"},
     amount : InputAmounts, date : {1}]

(* ------------------------------ actions ------------------------------- *)

(* a save of a new entry that also books an expense on the budgets of its  *)
(* owner and category                                                      *)
TransactionCreateBooked(fields) ==
    /\ nops < MaxOps
    /\ nextId <= MaxEntries
    /\ LET doc == [id |-> nextId] @@ fields
           r == TransactionSave(ledger, accounts, doc)
       IN  /\ ledger' = r[2]
           /\ accounts' = r[3]
           /\ nextId' = IF r[1] = "ok" THEN nextId + 1 ELSE nextId
           /\ response' = Resp("create", nextId, IF r[1] = "ok" THEN 201 ELSE 500)
           /\ budgets' =
                {IF r[1] = "ok" /\ b.userId = doc.userId
                      /\ b.categoryId = doc.categoryId /\ doc.type = "expense"
                 THEN [b EXCEPT !.spent = @ + doc.amount] ELSE b : b \in budgets}
    /\ nops' = nops + 1
    /\ before' = accounts
    /\ UNCHANGED <<goals, now, req>>

(* new Transaction(fields).save() through the model                       *)
TransactionCreate(fields) ==
    /\ nops < MaxOps
    /\ nextId <= MaxEntries
    /\ LET doc == [id |-> nextId] @@ fields
           r == TransactionSave(ledger, accounts, doc)
       IN  /\ ledger' = r[2]
           /\ accounts' = r[3]
           /\ nextId' = IF r[1] = "ok" THEN nextId + 1 ELSE nextId
           /\ response' = Resp("create", nextId, IF r[1] = "ok" THEN 201 ELSE 500)
    /\ nops' = nops + 1
    /\ before' = accounts
    /\ UNCHANGED <<budgets, goals, now, req>>

(* POST /api/transactions: the handler builds the document without a type *)
PostTransaction(user, body) ==
    /\ nops < MaxOps
    /\ nextId <= MaxEntries
    /\ IF body.accountId \notin AccountIds \/ AccountUser[body.accountId] # user
       THEN /\ response' = Resp("post", 0, 404)
            /\ UNCHANGED <<ledger, accounts, nextId>>
       ELSE IF body.categoryId \notin Categories
       THEN /\ response' = Resp("post", 0, 404)
            /\ UNCHANGED <<ledger, accounts, nextId>>
       ELSE LET doc == [id |-> nextId, userId |-> user,
                        accountId |-> body.accountId,
                        categoryId |-> body.categoryId,
                        type |-> Undefined, amount |-> body.amount,
                        date |-> body.date, transferAccountId |-> NoAccount,
                        status |-> "completed"]
                r == TransactionSave(ledger, accounts, doc)
            IN  /\ ledger' = r[2]
                /\ accounts' = r[3]
                /\ nextId' = IF r[1] = "ok" THEN nextId + 1 ELSE nextId
                /\ response' = Resp("post", nextId, IF r[1] = "ok" THEN 201 ELSE 500)
    /\ nops' = nops + 1
    /\ before' = accounts
    /\ UNCHANGED <<budgets, goals, now, req>>

(* PUT /api/transactions/:id                                               *)
PutTransaction(user, id, body) ==
    /\ nops < MaxOps
    /\ IF ~(HasDoc(id) /\ Doc(id).userId = user)
       THEN /\ response' = Resp("put", id, 404)
            /\ UNCHANGED <<ledger, accounts>>
       ELSE LET transaction == Doc(id)
            IN  IF /\ body.accountId # transaction.accountId
                   /\ (body.accountId \notin AccountIds
                         \/ AccountUser[body.accountId] # user)
                THEN /\ response' = Resp("put", id, 404)
                     /\ UNCHANGED <<ledger, accounts>>
                ELSE LET adjusted ==
                           IF body.accountId # transaction.accountId
                           THEN IncBalance(
                                  IncBalance(accounts, transaction.accountId,
                                             0 - transaction.amount),
                                  body.accountId, body.amount)
                           ELSE IF body.amount # transaction.amount
                           THEN IncBalance(accounts, body.accountId,
                                           body.amount - transaction.amount)
                           ELSE accounts
                         doc == [transaction EXCEPT
                                   !.accountId = body.accountId,
                                   !.categoryId = body.categoryId,
                                   !.amount = body.amount,
                                   !.date = body.date]
                         r == TransactionSave(ledger, adjusted, doc)
                     IN  /\ ledger' = r[2]
                         /\ accounts' = r[3]
                         /\ response' =
                              Resp("put", id, IF r[1] = "ok" THEN 200 ELSE 500)
    /\ nops' = nops + 1
    /\ before' = accounts
    /\ UNCHANGED <<budgets, goals, now, req>>
    /\ UNCHANGED nextId

(* DELETE /api/transactions/:id                                            *)
DeleteTransaction(user, id) ==
    /\ nops < MaxOps
    /\ IF ~(HasDoc(id) /\ Doc(id).userId = user)
       THEN /\ response' = Resp("delete", id, 404)
            /\ UNCHANGED ledger
       ELSE /\ ledger' = ledger \ {Doc(id)}
            /\ response' = Resp("delete", id, 200)
    /\ nops' = nops + 1
    /\ before' = accounts
    /\ UNCHANGED <<budgets, goals, now, req>>
    /\ UNCHANGED <<accounts, nextId>>

(* ------------------------------ budgets ------------------------------- *)
\* budgetSchema.amount min 0.01, in units of 0.01
MinBudgetAmount == 1
\* budgetSchema.spent min 0
MinSpent == 0
\* a date field that is not set
NoDate == 0 - 1
BudgetIds == 1..2
BudgetDates == 1..MaxDate

Budget(id) == CHOOSE b \in budgets : b.id = id

HasBudget(id) == \E b \in budgets : b.id = id

(* the $match stage with the end date excluded from the period            *)
SpentMatchOpenEnd(led, b) ==
    {d \in led : /\ d.userId = b.userId
                 /\ d.categoryId = b.categoryId
                 /\ d.type = "expense"
                 /\ d.status = "completed"
                 /\ d.date >= b.startDate
                 /\ d.date < b.endDate}

(* the $match stage of the aggregate in updateSpent                        *)
SpentMatch(led, b) ==
    {d \in led : /\ d.userId = b.userId
                 /\ d.categoryId = b.categoryId
                 /\ d.type = "expense"
                 /\ d.status = "completed"
                 /\ d.date >= b.startDate
                 /\ d.date <= b.endDate}

(* the $group stage: no group for no document, else one with the total     *)
RECURSIVE SumAmount(_)
SumAmount(docs) ==
    IF docs = {} THEN 0
    ELSE LET d == CHOOSE x \in docs : TRUE
         IN  d.amount + SumAmount(docs \ {d})

SpentGroup(docs) ==
    IF docs = {} THEN <<>> ELSE <<[total |-> SumAmount(docs)]>>

(* budgetSchema validators: required name, amount >= 0.01, spent >= 0      *)
BudgetValid(b) ==
    /\ b.name # Undefined
    /\ b.amount >= MinBudgetAmount
    /\ b.spent >= MinSpent

(* budgetSchema.pre("save"): TRUE when the hook calls next() without error *)
BudgetPreSave(b) == ~(b.startDate >= b.endDate)

(* the unique index {userId, categoryId, startDate}                        *)
BudgetUnique(bs, b) ==
    ~\E o \in bs : /\ o.id # b.id
                   /\ o.userId = b.userId
                   /\ o.categoryId = b.categoryId
                   /\ o.startDate = b.startDate

(* budget.save(): <<ok, collection>>                                       *)
BudgetSave(bs, b) ==
    IF BudgetValid(b) /\ BudgetPreSave(b) /\ BudgetUnique(bs, b)
    THEN <<TRUE, {o \in bs : o.id # b.id} \cup {b}>>
    ELSE <<FALSE, bs>>

(* budgetSchema.methods.updateSpent: <<ok, collection>>                    *)
updateSpent(bs, led, b) ==
    LET result == SpentGroup(SpentMatch(led, b))
        total == IF Len(result) > 0 /\ result[1].total # 0
                 THEN result[1].total ELSE 0
    IN  BudgetSave(bs, [b EXCEPT !.spent = total])

(* the findOne of POST /api/budgets for an active budget of the category   *)
(* whose period meets [startDate, endDate]                                 *)
ExistingBudget(bs, user, body) ==
    {o \in bs : /\ o.userId = user
                /\ o.categoryId = body.categoryId
                /\ o.isActive
                /\ o.startDate <= body.endDate
                /\ o.endDate >= body.startDate}

(* validateBudget: the end date must be after the start date               *)
ValidateBudget(body) == ~(body.endDate <= body.startDate)

BudgetBodies(categories, starts, ends, actives) ==
    [categoryId : categories, amount : {2},
     startDate : starts, endDate : ends, isActive : actives]

(* POST /api/budgets: the handler builds the document without a name       *)
PostBudget(user, body) ==
    /\ nops < MaxOps
    /\ IF ~ValidateBudget(body)
       THEN /\ response' = Resp("postBudget", 0, 400)
            /\ UNCHANGED budgets
       ELSE IF body.categoryId \notin Categories
       THEN /\ response' = Resp("postBudget", 0, 404)
            /\ UNCHANGED budgets
       ELSE IF ExistingBudget(budgets, user, body) # {}
       THEN /\ response' = Resp("postBudget", 0, 400)
            /\ UNCHANGED budgets
       ELSE LET id == CHOOSE i \in 1..(Cardinality(budgets) + 1) :
                         ~HasBudget(i)
                budget == [id |-> id, userId |-> user,
                           categoryId |-> body.categoryId,
                           name |-> Undefined, amount |-> body.amount,
                           spent |-> 0, startDate |-> body.startDate,
                           endDate |-> body.endDate, isActive |-> TRUE]
                r == BudgetSave(budgets, budget)
            IN  IF ~r[1]
                THEN /\ response' = Resp("postBudget", 0, 500)
                     /\ UNCHANGED budgets
                ELSE LET u == updateSpent(r[2], ledger, budget)
                     IN  /\ budgets' = u[2]
                         /\ response' = Resp("postBudget", id,
                                             IF u[1] THEN 201 ELSE 500)
    /\ nops' = nops + 1
    /\ UNCHANGED <<ledgerVars, goals, now, req>>

(* PUT /api/budgets/:id                                                    *)
PutBudget(user, id, body) ==
    /\ nops < MaxOps
    /\ IF ~ValidateBudget(body)
       THEN /\ response' = Resp("putBudget", id, 400)
            /\ UNCHANGED budgets
       ELSE IF ~(HasBudget(id) /\ Budget(id).userId = user)
       THEN /\ response' = Resp("putBudget", id, 404)
            /\ UNCHANGED budgets
       ELSE LET budget == [Budget(id) EXCEPT
                             !.amount = body.amount,
                             !.startDate = body.startDate,
                             !.endDate = body.endDate,
                             !.isActive = IF body.isActive = Undefined THEN @
                                          ELSE body.isActive = "true"]
                r == BudgetSave(budgets, budget)
            IN  IF ~r[1]
                THEN /\ response' = Resp("putBudget", id, 500)
                     /\ UNCHANGED budgets
                ELSE LET u == updateSpent(r[2], ledger, budget)
                     IN  /\ budgets' = u[2]
                         /\ response' = Resp("putBudget", id,
                                             IF u[1] THEN 200 ELSE 500)
    /\ nops' = nops + 1
    /\ UNCHANGED <<ledgerVars, goals, now, req>>

(* POST /api/budgets/:id/refresh                                           *)
RefreshBudget(user, id) ==
    /\ nops < MaxOps
    /\ IF ~(HasBudget(id) /\ Budget(id).userId = user)
       THEN /\ response' = Resp("refresh", id, 404)
            /\ UNCHANGED budgets
       ELSE LET u == updateSpent(budgets, ledger, Budget(id))
            IN  /\ budgets' = u[2]
                /\ response' = Resp("refresh", id, IF u[1] THEN 200 ELSE 500)
    /\ nops' = nops + 1
    /\ UNCHANGED <<ledgerVars, goals, now, req>>

(* GET /api/budgets/:id: the budget is read with its category populated    *)
(* and updateSpent hands this.categoryId to the $match stage; the stage    *)
(* then compares the entries' category with the category's id, or with the *)
(* populated document, which no entry equals                               *)
GetBudget(user, id) ==
    /\ nops < MaxOps
    /\ IF ~(HasBudget(id) /\ Budget(id).userId = user)
       THEN /\ response' = Resp("getBudget", id, 404)
            /\ UNCHANGED budgets
       ELSE \E matched \in BOOLEAN :
               LET u == IF matched
                        THEN updateSpent(budgets, ledger, Budget(id))
                        ELSE BudgetSave(budgets,
                                        [Budget(id) EXCEPT !.spent = 0])
               IN  /\ budgets' = u[2]
                   /\ response' = Resp("getBudget", id,
                                       IF u[1] THEN 200 ELSE 500)
    /\ nops' = nops + 1
    /\ UNCHANGED <<ledgerVars, goals, now, req>>

(* DELETE /api/budgets/:id                                                 *)
DeleteBudget(user, id) ==
    /\ nops < MaxOps
    /\ IF ~(HasBudget(id) /\ Budget(id).userId = user)
       THEN /\ response' = Resp("deleteBudget", id, 404)
            /\ UNCHANGED budgets
       ELSE /\ budgets' = budgets \ {Budget(id)}
            /\ response' = Resp("deleteBudget", id, 200)
    /\ nops' = nops + 1
    /\ UNCHANGED <<ledgerVars, goals, now, req>>

(* createBudgets of the seeding script, run in the month [first, last]:    *)
(* Budget.insertMany of one active budget per selected category            *)
SeedBudget(id, user, category, first, last, spent) ==
    [id |-> id, userId |-> user, categoryId |-> category, name |-> "Budget",
     amount |-> 2, spent |-> spent, startDate |-> first, endDate |-> last,
     isActive |-> TRUE]

(* the $lookup of the listing and of the dashboard: the entries of the     *)
(* budget's category, owner and period with an amount below 0, and the     *)
(* $sum of their absolute amounts                                          *)
LookupTransactions(led, b) ==
    {d \in led : /\ d.categoryId = b.categoryId
                 /\ d.userId = b.userId
                 /\ d.date >= b.startDate
                 /\ d.date <= b.endDate
                 /\ d.amount < 0}

RECURSIVE SumAbs(_)
SumAbs(docs) ==
    IF docs = {} THEN 0
    ELSE LET d == CHOOSE x \in docs : TRUE
         IN  (IF d.amount < 0 THEN 0 - d.amount ELSE d.amount)
               + SumAbs(docs \ {d})

(* $lookup of the category followed by $unwind: a budget whose category   *)
(* does not exist leaves the pipeline                                      *)
Projected(bs, led) ==
    {[id |-> b.id, amount |-> b.amount,
      spent |-> SumAbs(LookupTransactions(led, b))] :
        b \in {x \in bs : x.categoryId \in Categories}}

(* GET /api/budgets: isActive is the query string, true (not a string)     *)
(* when the query has none                                                 *)
GetBudgets(user, isActive) ==
    /\ nops < MaxOps
    /\ LET matched ==
             {b \in budgets :
                /\ b.userId = user
                /\ (isActive # "all" => b.isActive = (isActive = "true"))}
       IN  response' = [op |-> "getBudgets", id |-> 0, status |-> 200,
                        data |-> Projected(matched, ledger)]
    /\ nops' = nops + 1
    /\ UNCHANGED <<ledgerVars, budgets, goals, now, req>>

(* GET /api/dashboard, its budgets: the active ones whose period holds the *)
(* current date                                                            *)
GetDashboard(user) ==
    /\ nops < MaxOps
    /\ LET matched ==
             {b \in budgets : /\ b.userId = user
                              /\ b.isActive
                              /\ b.startDate <= now
                              /\ b.endDate >= now}
       IN  response' = [op |-> "getDashboard", id |-> 0, status |-> 200,
                        data |-> Projected(matched, ledger)]
    /\ nops' = nops + 1
    /\ UNCHANGED <<ledgerVars, budgets, goals, now, req>>

(* the budget as the listing and the dashboard read it: a document with    *)
(* its alertThreshold and notifications fields                             *)
WithAlert(b, amount, threshold, enabled, lastSent) ==
    [id |-> b.id, userId |-> b.userId, categoryId |-> b.categoryId,
     name |-> b.name, amount |-> amount, spent |-> b.spent,
     startDate |-> b.startDate, endDate |-> b.endDate,
     isActive |-> b.isActive, alertThreshold |-> threshold,
     notifications |-> [enabled |-> enabled, lastSent |-> lastSent]]

(* Math.round: the nearest integer, a half rounded up                      *)
Round(num, den) == (2 * num + den) \div (2 * den)

(* virtual percentageUsed: Math.round((spent / amount) * 100), 0 for an    *)
(* amount that is not positive                                             *)
percentageUsed(b) ==
    IF b.amount > 0 THEN Round(b.spent * 100, b.amount) ELSE 0

(* virtual remaining                                                       *)
remaining(b) == IF b.amount - b.spent > 0 THEN b.amount - b.spent ELSE 0

(* virtual status of a budget, decided on the rounded percentage           *)
BudgetStatus(b) ==
    LET percentage == percentageUsed(b)
    IN  IF percentage >= 100 THEN "exceeded"
        ELSE IF percentage >= b.alertThreshold THEN "warning"
        ELSE "on_track"

(* toJSON with virtuals: true, the document as a response carries it       *)
BudgetToJSON(id) ==
    /\ nops < MaxOps
    /\ HasBudget(id)
    /\ response' = [op |-> "toJSON", id |-> id, status |-> 200,
                    percentageUsed |-> percentageUsed(Budget(id)),
                    remaining |-> remaining(Budget(id)),
                    budgetStatus |-> BudgetStatus(Budget(id))]
    /\ nops' = nops + 1
    /\ UNCHANGED <<ledgerVars, budgets, goals, now, req>>

(* shouldSendAlert without the test of the last alert                      *)
shouldSendAlertAlways(b, t) ==
    IF ~b.notifications.enabled THEN FALSE
    ELSE IF percentageUsed(b) < b.alertThreshold THEN FALSE
    ELSE TRUE

(* shouldSendAlert at time t, a day being the unit of time                 *)
shouldSendAlert(b, t) ==
    IF ~b.notifications.enabled THEN FALSE
    ELSE IF percentageUsed(b) < b.alertThreshold THEN FALSE
    ELSE IF b.notifications.lastSent # NoDate
            /\ t - b.notifications.lastSent < 1 THEN FALSE
    ELSE TRUE

(* a call of budget.shouldSendAlert()                                      *)
ShouldSendAlert(id) ==
    /\ nops < MaxOps
    /\ HasBudget(id)
    /\ response' = [op |-> "shouldSendAlert", id |-> id, status |-> 200,
                    result |-> shouldSendAlert(Budget(id), now)]
    /\ nops' = nops + 1
    /\ UNCHANGED <<ledgerVars, budgets, goals, now, req>>

(* ------------------------------- goals -------------------------------- *)
\* goalSchema.contributions.amount and milestones.amount min 0.01
MinContribution == 1
\* goalSchema.currentAmount min 0
MinCurrent == 0
GoalIds == 1..2
ContributionSources == {"manual", "auto_save", "bonus", "transfer"}
\* goalSchema.autoSave.amount min 0
MinAutoSave == 0
Frequencies == {"daily", "weekly", "monthly"}
\* Number.parseFloat of a value that is not a number
NotANumber == 0 - 99
\* the days setDate adds for a week
WeekDays == 7

(* the validators without the check of the contributions                  *)
GoalValidAnyContribution(g) ==
    /\ g.targetAmount >= MinContribution
    /\ g.currentAmount >= MinCurrent
    /\ \A i \in 1..Len(g.milestones) :
          g.milestones[i].amount >= MinContribution
    /\ g.autoSave.amount >= MinAutoSave
    /\ g.autoSave.frequency \in Frequencies \cup {Undefined}

(* goalSchema validators on save                                           *)
GoalValid(g) ==
    /\ g.targetAmount >= MinContribution
    /\ g.currentAmount >= MinCurrent
    /\ \A i \in 1..Len(g.contributions) :
          /\ g.contributions[i].amount >= MinContribution
          /\ g.contributions[i].source \in ContributionSources
    /\ \A i \in 1..Len(g.milestones) :
          g.milestones[i].amount >= MinContribution
    /\ g.autoSave.amount >= MinAutoSave
    /\ g.autoSave.frequency \in Frequencies \cup {Undefined}

(* the hook with a target date that may be the current time               *)
GoalPreSaveDateLax(g, t) == ~(g.targetDate < t)

(* goalSchema.pre("save"), first hook: TRUE when next() gets no error      *)
GoalPreSaveDate(g, t) == ~(g.targetDate <= t)

(* the hook without the condition on the status                            *)
GoalPreSaveStatusAny(g) ==
    IF g.currentAmount >= g.targetAmount
    THEN [g EXCEPT !.status = "completed"]
    ELSE g

(* goalSchema.pre("save"), second hook                                     *)
GoalPreSaveStatus(g) ==
    IF g.currentAmount >= g.targetAmount /\ g.status = "active"
    THEN [g EXCEPT !.status = "completed"]
    ELSE g

(* goal.save() at time t: <<ok, document as persisted>>                    *)
GoalSave(g, t) ==
    IF GoalValid(g) /\ GoalPreSaveDate(g, t)
    THEN <<TRUE, GoalPreSaveStatus(g)>>
    ELSE <<FALSE, g>>

(* the milestone check with a strict comparison                           *)
CheckMilestoneStrict(g, milestone, t) ==
    IF ~milestone.achieved /\ g.currentAmount > milestone.amount
    THEN [milestone EXCEPT !.achieved = TRUE, !.achievedDate = t]
    ELSE milestone

(* the forEach over the milestones in addContribution                      *)
CheckMilestone(g, milestone, t) ==
    IF ~milestone.achieved /\ g.currentAmount >= milestone.amount
    THEN [milestone EXCEPT !.achieved = TRUE, !.achievedDate = t]
    ELSE milestone

(* goalSchema.methods.addContribution at time t: <<ok, document in memory>> *)
addContribution(g, amount, source, t) ==
    LET pushed == [g EXCEPT !.contributions =
                      Append(@, [amount |-> amount, source |-> source,
                                 date |-> t])]
        added == [pushed EXCEPT !.currentAmount = @ + amount]
        checked == [added EXCEPT !.milestones =
                      [i \in 1..Len(@) |-> CheckMilestone(added, @[i], t)]]
    IN  GoalSave(checked, t)

(* Goal.findById(id) followed by goal.addContribution(amount, "", source)  *)
AddContribution(id, amount, source) ==
    /\ nops < MaxOps
    /\ LET r == addContribution(goals[id], amount, source, now)
       IN  /\ goals' = IF r[1] THEN [goals EXCEPT ![id] = r[2]] ELSE goals
           /\ response' = Resp("addContribution", id,
                               IF r[1] THEN 200 ELSE 500)
    /\ nops' = nops + 1
    /\ UNCHANGED <<ledgerVars, budgets, now, req>>

(* POST /api/goals/:id/add-amount: the handler calls goal.addAmount, which *)
(* the schema does not define                                              *)
PostGoalAddAmount(user, id, amount) ==
    /\ nops < MaxOps
    /\ response' =
         IF amount <= 0 THEN Resp("addAmount", id, 400)
         ELSE IF ~(id \in DOMAIN goals /\ goals[id].userId = user)
         THEN Resp("addAmount", id, 404)
         ELSE Resp("addAmount", id, 500)
    /\ nops' = nops + 1
    /\ UNCHANGED <<ledgerVars, budgets, goals, now, req>>

(* time passes                                                             *)
Tick ==
    /\ now < MaxNow
    /\ now' = now + 1
    /\ UNCHANGED <<ledgerVars, response, nops, budgets, goals, req>>

(* createGoals of the seeding script: an active goal with its current      *)
(* amount as first contribution and count milestones at equal distances,   *)
(* achieved when the current amount has reached them                       *)
SeedGoal(user, target, current, count, targetDate, t) ==
    [userId |-> user, targetAmount |-> target, currentAmount |-> current,
     targetDate |-> targetDate, status |-> "active",
     contributions |-> <<[amount |-> current, source |-> "manual",
                          date |-> t]>>,
     milestones |-> [i \in 1..count |->
        [amount |-> (target \div count) * i,
         achieved |-> current >= (target \div count) * i,
         achievedDate |-> IF current >= (target \div count) * i
                          THEN t ELSE NoDate]],
     autoSave |-> [enabled |-> FALSE, amount |-> 0, frequency |-> "monthly",
                   nextDate |-> NoDate]]

(* a goal as PUT /api/goals/:id leaves it with an auto-save rule           *)
WithAutoSave(g, amount, frequency, nextDate) ==
    [g EXCEPT !.autoSave = [enabled |-> TRUE, amount |-> amount,
                            frequency |-> frequency, nextDate |-> nextDate]]

(* a goal document stored with another value of the status enum            *)
WithStatus(g, status) == [g EXCEPT !.status = status]

(* what document.save() writes: the paths of the document in memory that   *)
(* were modified since it was loaded or last saved (pushed contributions   *)
(* as $push, every other modified path as $set), onto the stored document  *)
GoalWrite(stored, loaded, doc) ==
    [stored EXCEPT
       !.contributions =
           @ \o SubSeq(doc.contributions, Len(loaded.contributions) + 1,
                       Len(doc.contributions)),
       !.targetAmount =
           IF doc.targetAmount # loaded.targetAmount
           THEN doc.targetAmount ELSE @,
       !.currentAmount =
           IF doc.currentAmount # loaded.currentAmount
           THEN doc.currentAmount ELSE @,
       !.milestones =
           IF Len(doc.milestones) # Len(loaded.milestones)
           THEN doc.milestones
           ELSE [k \in 1..Len(@) |->
                   IF k <= Len(doc.milestones)
                        /\ doc.milestones[k] # loaded.milestones[k]
                   THEN doc.milestones[k] ELSE @[k]],
       !.status = IF doc.status # loaded.status THEN doc.status ELSE @,
       !.autoSave = IF doc.autoSave # loaded.autoSave THEN doc.autoSave ELSE @]

(* the calendar of Date: days are numbered from 0, months have 3 and 2     *)
(* days in turn                                                            *)
MonthDays(m) == IF m % 2 = 0 THEN 3 ELSE 2

MonthOf(d) == 2 * (d \div 5) + (IF d % 5 < 3 THEN 0 ELSE 1)

(* nextDate.setMonth(nextDate.getMonth() + 1): the same day of the next    *)
(* month, running over into the month after when that month is shorter     *)
SetNextMonth(d) == d + MonthDays(MonthOf(d))

(* goalSchema.methods.calculateNextAutoSave at time t                      *)
calculateNextAutoSave(g, t) ==
    IF ~g.autoSave.enabled THEN NoDate
    ELSE LET nextDate == IF g.autoSave.nextDate = NoDate THEN t
                         ELSE g.autoSave.nextDate
         IN  CASE g.autoSave.frequency = "daily" -> nextDate + 1
               [] g.autoSave.frequency = "weekly" -> nextDate + WeekDays
               [] g.autoSave.frequency = "monthly" -> SetNextMonth(nextDate)
               [] OTHER -> nextDate

(* the filter without its status condition                                 *)
DueAnyStatus(g, t) ==
    /\ g.autoSave.enabled
    /\ g.autoSave.nextDate # NoDate
    /\ g.autoSave.nextDate <= t

(* the filter of the find in processAutoSaves                              *)
Due(g, t) ==
    /\ g.autoSave.enabled
    /\ g.autoSave.nextDate # NoDate
    /\ g.autoSave.nextDate <= t
    /\ g.status = "active"

(* ------------------------- the auto-save sweep ------------------------ *)
(* A call p of Goal.processAutoSaves(): every await is a point where time  *)
(* passes and another request or sweep may run.                            *)
SweepProcs == 1..2

SweepIdle ==
    [pc |-> "idle", todo |-> <<>>, docs |-> <<>>, start |-> <<>>, at |-> 0,
     found |-> {}, failed |-> {}, count |-> 0]

RECURSIVE SortedIds(_)
SortedIds(S) ==
    IF S = {} THEN <<>>
    ELSE LET i == CHOOSE x \in S : \A y \in S : x <= y
         IN  <<i>> \o SortedIds(S \ {i})

(* the for loop goes on to the next goal, or the loop ends                 *)
SweepStep(r) ==
    [r EXCEPT !.todo = Tail(@),
              !.pc = IF Len(r.todo) > 1 THEN "add" ELSE "return"]

(* an error thrown out of the loop instead of being caught                 *)
SweepCaughtAbort(r, id) ==
    [r EXCEPT !.todo = <<>>, !.failed = @ \cup {id}, !.pc = "raised"]

(* the catch block: the error is logged and the loop goes on               *)
SweepCaught(r, id) == SweepStep([r EXCEPT !.failed = @ \cup {id}])

(* now = new Date(); goalsToProcess = await this.find({...})               *)
SweepFind(p) ==
    /\ nops < MaxOps
    /\ req[p].pc \in {"idle", "done"}
    /\ LET found == {i \in GoalIds : Due(goals[i], now)}
       IN  req' = [req EXCEPT ![p] =
                     [pc |-> IF found = {} THEN "return" ELSE "add",
                      todo |-> SortedIds(found), docs |-> goals,
                      start |-> goals, at |-> now, found |-> found,
                      failed |-> {}, count |-> 0]]
    /\ nops' = nops + 1
    /\ UNCHANGED <<ledgerVars, response, budgets, goals, now>>

(* await goal.addContribution(goal.autoSave.amount, ..., "auto_save")      *)
SweepAdd(p) ==
    /\ req[p].pc = "add"
    /\ LET id == Head(req[p].todo)
           goal == req[p].docs[id]
           r == addContribution(goal, goal.autoSave.amount, "auto_save", now)
       IN  IF r[1]
           THEN /\ goals' = [goals EXCEPT ![id] = GoalWrite(@, goal, r[2])]
                /\ req' = [req EXCEPT ![p].docs[id] = r[2],
                                      ![p].pc = "advance"]
           ELSE /\ req' = [req EXCEPT ![p] = SweepCaught(@, id)]
                /\ UNCHANGED goals
    /\ UNCHANGED <<ledgerVars, response, nops, budgets, now>>

(* goal.autoSave.nextDate = goal.calculateNextAutoSave(); await goal.save() *)
SweepAdvance(p) ==
    /\ req[p].pc = "advance"
    /\ LET id == Head(req[p].todo)
           goal == req[p].docs[id]
           next == [goal EXCEPT !.autoSave.nextDate =
                      calculateNextAutoSave(goal, now)]
           r == GoalSave(next, now)
       IN  IF r[1]
           THEN /\ goals' = [goals EXCEPT ![id] = GoalWrite(@, goal, r[2])]
                /\ req' = [req EXCEPT ![p] =
                             SweepStep([@ EXCEPT !.docs[id] = r[2]])]
           ELSE /\ req' = [req EXCEPT ![p] = SweepCaught(@, id)]
                /\ UNCHANGED goals
    /\ UNCHANGED <<ledgerVars, response, nops, budgets, now>>

(* a return of the number of goals whose two saves succeeded               *)
SweepReturnSucceeded(p) ==
    /\ req[p].pc = "return"
    /\ req' = [req EXCEPT ![p].pc = "done",
                          ![p].count = Cardinality(req[p].found \ req[p].failed)]
    /\ UNCHANGED <<ledgerVars, response, nops, budgets, goals, now>>

(* return goalsToProcess.length                                            *)
SweepReturn(p) ==
    /\ req[p].pc = "return"
    /\ req' = [req EXCEPT ![p].pc = "done",
                          ![p].count = Cardinality(req[p].found)]
    /\ UNCHANGED <<ledgerVars, response, nops, budgets, goals, now>>

(* validateGoal: targetAmount at least 0.01 and a target date in the future *)
ValidateGoal(body, t) ==
    /\ body.targetAmount >= MinContribution
    /\ ~(body.targetDate <= t)

(* the autoSave of a goal after goal.autoSave = undefined                  *)
AutoSaveUnset ==
    [enabled |-> FALSE, amount |-> 0, frequency |-> Undefined,
     nextDate |-> NoDate]

(* PUT /api/goals/:id: the body's targetDate is validated but not stored   *)
PutGoal(user, id, body) ==
    /\ nops < MaxOps
    /\ IF ~ValidateGoal(body, now)
       THEN /\ response' = Resp("putGoal", id, 400)
            /\ UNCHANGED goals
       ELSE IF ~(id \in DOMAIN goals /\ goals[id].userId = user)
       THEN /\ response' = Resp("putGoal", id, 404)
            /\ UNCHANGED goals
       ELSE LET goal == [goals[id] EXCEPT
                           !.targetAmount = body.targetAmount,
                           !.currentAmount = body.currentAmount,
                           !.autoSave = IF body.autoSave.given
                                        THEN body.autoSave.value
                                        ELSE AutoSaveUnset,
                           !.milestones = IF body.milestones.given
                                          THEN body.milestones.value ELSE @]
                r == GoalSave(goal, now)
            IN  /\ goals' = IF r[1] THEN [goals EXCEPT ![id] = r[2]]
                            ELSE goals
                /\ response' = Resp("putGoal", id, IF r[1] THEN 200 ELSE 500)
    /\ nops' = nops + 1
    /\ UNCHANGED <<ledgerVars, budgets, now, req>>

(* ------------------- interleaved entry creations ---------------------- *)
(* A request p runs new Transaction(fields).save(); every await of the     *)
(* post("save") hook is a point where another request may run.             *)
Procs == 1..2

Idle == [pc |-> "idle", id |-> 0, account |-> 0, destination |-> 0]

(* validation, pre("save") and the insert of the document                  *)
ConcInsert(p, fields) ==
    /\ req[p].pc = "idle"
    /\ nextId <= MaxEntries
    /\ LET doc == [id |-> nextId] @@ fields
       IN  IF ~TransactionValid(doc) \/ ~TransactionPreSave(doc)
           THEN /\ req' = [req EXCEPT ![p].pc = "rejected"]
                /\ UNCHANGED <<ledger, nextId>>
           ELSE /\ ledger' = ledger \cup {doc}
                /\ nextId' = nextId + 1
                /\ req' = [req EXCEPT ![p].pc = "find", ![p].id = doc.id]
    /\ UNCHANGED <<accounts, response, nops, before, budgets, goals, now>>

(* account = await Account.findById(doc.accountId), then the change of     *)
(* account.balance in memory                                               *)
ConcFindAccount(p) ==
    /\ req[p].pc = "find"
    /\ LET doc == Doc(req[p].id)
       IN  IF doc.accountId \notin AccountIds
           THEN req' = [req EXCEPT ![p].pc = "done"]
           ELSE req' = [req EXCEPT
                  ![p].account =
                      IF doc.type = "income"
                      THEN accounts[doc.accountId] + doc.amount
                      ELSE accounts[doc.accountId] - doc.amount,
                  ![p].pc = IF doc.type = "transfer" THEN "findDest"
                            ELSE "save"]
    /\ UNCHANGED <<ledgerVars, response, nops, budgets, goals, now>>

(* destinationAccount = await Account.findById(doc.transferAccountId)      *)
ConcFindDestination(p) ==
    /\ req[p].pc = "findDest"
    /\ LET doc == Doc(req[p].id)
       IN  IF doc.transferAccountId \notin AccountIds
           THEN req' = [req EXCEPT ![p].pc = "save"]
           ELSE req' = [req EXCEPT
                  ![p].destination =
                      accounts[doc.transferAccountId] + doc.amount,
                  ![p].pc = "saveDest"]
    /\ UNCHANGED <<ledgerVars, response, nops, budgets, goals, now>>

(* await destinationAccount.save()                                         *)
ConcSaveDestination(p) ==
    /\ req[p].pc = "saveDest"
    /\ LET doc == Doc(req[p].id)
           r == AccountSave(accounts, doc.transferAccountId,
                            req[p].destination)
       IN  /\ accounts' = r[2]
           /\ req' = [req EXCEPT ![p].pc = IF r[1] THEN "save" ELSE "caught"]
    /\ UNCHANGED <<ledger, nextId, before, response, nops, budgets, goals,
                   now>>

(* await account.save()                                                    *)
ConcSaveAccount(p) ==
    /\ req[p].pc = "save"
    /\ LET doc == Doc(req[p].id)
           r == AccountSave(accounts, doc.accountId, req[p].account)
       IN  /\ accounts' = r[2]
           /\ req' = [req EXCEPT ![p].pc = IF r[1] THEN "done" ELSE "caught"]
    /\ UNCHANGED <<ledger, nextId, before, response, nops, budgets, goals,
                   now>>

(* --------------------------- specification ---------------------------- *)
InitLedger ==
    /\ accounts = InitialBalance
    /\ ledger = {}
    /\ nextId = 1
    /\ response = Resp("init", 0, 0)
    /\ nops = 0
    /\ before = InitialBalance

Init ==
    /\ InitLedger
    /\ budgets = {}
    /\ goals = <<>>
    /\ now = 0
    /\ req = <<>>

Next ==
    \/ \E f \in NewDocs(TransactionTypes) : TransactionCreate(f)
    \/ \E u \in Users, b \in Bodies : PostTransaction(u, b)
    \/ \E u \in Users, i \in EntryIds, b \in Bodies : PutTransaction(u, i, b)
    \/ \E u \in Users, i \in EntryIds : DeleteTransaction(u, i)

Spec == Init /\ [][Next]_vars

(* the same operations restricted to income and expense entries            *)
NextIE ==
    \/ \E f \in NewDocs({"income", "expense"}) : TransactionCreate(f)
    \/ \E u \in Users, b \in Bodies : PostTransaction(u, b)
    \/ \E u \in Users, i \in EntryIds, b \in Bodies : PutTransaction(u, i, b)
    \/ \E u \in Users, i \in EntryIds : DeleteTransaction(u, i)

SpecIE == Init /\ [][NextIE]_vars

(* budgets seeded in two successive months for one category, and the       *)
(* ledger entries that the spent aggregate has to tell apart: completed    *)
(* expenses of the budgets' owner and category, and entries of amount 1    *)
(* that differ from those in exactly one of the matched fields             *)
(* entries created and edited with a category of any kind: the default    *)
(* one, another user's own, and one that does not exist                    *)
CategoryBodies ==
    [accountId : InputAccounts, categoryId : Categories \cup {GhostCategory},
     amount : InputAmounts, date : {1}]

NextCategory ==
    \/ \E f \in NewDocs({"income", "expense"}) : TransactionCreate(f)
    \/ \E u \in Users, b \in CategoryBodies : PostTransaction(u, b)
    \/ \E u \in Users, i \in EntryIds, b \in CategoryBodies :
          PutTransaction(u, i, b)

SpecCategory == Init /\ [][NextCategory]_vars

SpentBase ==
    [userId |-> "u1", categoryId |-> "c1", type |-> "expense",
     status |-> "completed"]

SpentDocs ==
    {f \in [userId : Users, accountId : {"a1"}, categoryId : Categories,
            type : {"income", "expense"}, amount : InputAmounts,
            date : 1..3, transferAccountId : {NoAccount},
            status : {"completed", "pending", "cancelled"}] :
        LET differ == Cardinality({k \in DOMAIN SpentBase :
                                     f[k] # SpentBase[k]})
        IN  differ = 0 \/ (differ = 1 /\ f.amount = 1)}

InitBudget ==
    /\ InitLedger
    /\ \E s \in {0, 1} :
          budgets = {SeedBudget(1, "u1", "c1", 1, 2, s),
                     SeedBudget(2, "u1", "c1", 3, 4, s)}
    /\ goals = <<>>
    /\ now = 0
    /\ req = <<>>

NextSpent ==
    \/ \E f \in SpentDocs : TransactionCreate(f)
    \/ \E i \in EntryIds : DeleteTransaction("u1", i)
    \/ \E i \in BudgetIds,
          b \in BudgetBodies({"c1"}, {1, 2}, {2, 3}, {Undefined}) :
          PutBudget("u1", i, b)
    \/ \E u \in Users, i \in BudgetIds : RefreshBudget(u, i)

SpecSpent == InitBudget /\ [][NextSpent]_vars

NextBudget ==
    \/ \E u \in Users,
          b \in BudgetBodies({"c1", GhostCategory}, BudgetDates, BudgetDates,
                             {Undefined}) :
          PostBudget(u, b)
    \/ \E u \in Users, i \in BudgetIds,
          b \in BudgetBodies({"c1"}, BudgetDates, BudgetDates,
                             {Undefined, "true", "false"}) :
          PutBudget(u, i, b)
    \/ \E u \in Users, i \in BudgetIds : RefreshBudget(u, i)
    \/ \E u \in Users, i \in BudgetIds : DeleteBudget(u, i)

SpecBudget == InitBudget /\ [][NextBudget]_vars

(* the ledger operations next to the operations that recompute spent       *)
NextLedgerBudget ==
    \/ \E f \in SpentDocs : TransactionCreate(f)
    \/ \E b \in Bodies : PostTransaction("u1", b)
    \/ \E i \in EntryIds, b \in Bodies : PutTransaction("u1", i, b)
    \/ \E i \in EntryIds : DeleteTransaction("u1", i)
    \/ \E i \in BudgetIds : RefreshBudget("u1", i)
    \/ \E u \in Users, i \in BudgetIds : GetBudget(u, i)
    \/ \E i \in BudgetIds,
          b \in BudgetBodies({"c1"}, {1}, {2, 3}, {Undefined}) :
          PutBudget("u1", i, b)

SpecLedgerBudget == InitBudget /\ [][NextLedgerBudget]_vars

(* the listing and the dashboard next to the entries they total            *)
NextListing ==
    \/ \E f \in SpentDocs : TransactionCreate(f)
    \/ \E i \in BudgetIds : RefreshBudget("u1", i)
    \/ \E u \in Users, q \in {Undefined, "true", "all"} : GetBudgets(u, q)
    \/ \E u \in Users : GetDashboard(u)
    \/ Tick

SpecListing == InitBudget /\ [][NextListing]_vars

(* budgets read through their virtuals and asked for an alert: the stored  *)
(* amount and spent are those of a budget after some refresh, in units of  *)
(* 0.01                                                                    *)
AlertAmounts == {2, 400}
AlertSpents == {0, 1, 2, 3, 317, 319, 320, 399, 400, 401}
AlertThresholds == {0, 80, 100}

InitAlert ==
    /\ InitLedger
    /\ \E amount \in AlertAmounts, spent \in AlertSpents,
          threshold \in AlertThresholds, enabled \in BOOLEAN,
          lastSent \in {NoDate} \cup 0..1 :
          budgets = {WithAlert(SeedBudget(1, "u1", "c1", 1, 2, spent),
                               amount, threshold, enabled, lastSent)}
    /\ goals = <<>>
    /\ now = 0
    /\ req = <<>>

NextAlert ==
    \/ \E i \in BudgetIds : BudgetToJSON(i)
    \/ \E i \in BudgetIds : ShouldSendAlert(i)
    \/ Tick

SpecAlert == InitAlert /\ [][NextAlert]_vars

InitGoal ==
    /\ InitLedger
    /\ budgets = {}
    /\ goals = <<SeedGoal("u1", 4, 1, 2, 2, 0), SeedGoal("u1", 6, 3, 3, 3, 0)>>
    /\ now = 0
    /\ req = <<>>

NextGoal ==
    \/ \E i \in GoalIds, v \in (0 - 1)..MaxAmount,
          src \in {"manual", "auto_save"} : AddContribution(i, v, src)
    \/ \E u \in Users, i \in GoalIds \cup {0}, v \in 0..1 :
          PostGoalAddAmount(u, i, v)
    \/ Tick

SpecGoal == InitGoal /\ [][NextGoal]_vars

(* goals with an auto-save rule due at day 0: the first with a target date *)
(* that is near or far, the second active or paused, with a weekly or      *)
(* monthly rule                                                            *)
SweepGoals1 ==
    {WithAutoSave(SeedGoal("u1", 4, 1, 2, t, 0), a, "daily", 0) :
        t \in {1, 3}, a \in {1, 2}}

SweepGoals2 ==
    {WithStatus(WithAutoSave(SeedGoal("u1", 6, 3, 3, 3, 0), a, f, 0), st) :
        a \in {1, 3}, f \in {"weekly", "monthly"}, st \in {"active", "paused"}}

InitSweep ==
    /\ InitLedger
    /\ budgets = {}
    /\ \E g1 \in SweepGoals1, g2 \in SweepGoals2 : goals = <<g1, g2>>
    /\ now = 0
    /\ req = [p \in SweepProcs |-> SweepIdle]

(* one sweep at a time, while time passes                                  *)
NextSweep ==
    \/ SweepFind(1)
    \/ SweepAdd(1)
    \/ SweepAdvance(1)
    \/ SweepReturn(1)
    \/ Tick

SpecSweep == InitSweep /\ [][NextSweep]_vars

(* sweeps that overlap                                                     *)
NextSweeps ==
    \/ \E p \in SweepProcs : SweepFind(p)
    \/ \E p \in SweepProcs : SweepAdd(p)
    \/ \E p \in SweepProcs : SweepAdvance(p)
    \/ \E p \in SweepProcs : SweepReturn(p)
    \/ Tick

SpecSweeps == InitSweep /\ [][NextSweeps]_vars

(* the bodies of the goal update: one that completes the goal's data and   *)
(* the bodies that differ from it in one field                             *)
PutGoalBase ==
    [targetAmount |-> 6, currentAmount |-> 5, targetDate |-> MaxNow + 1,
     autoSave |-> [given |-> TRUE,
                   value |-> [enabled |-> TRUE, amount |-> 1,
                              frequency |-> "daily", nextDate |-> 1]],
     milestones |-> [given |-> FALSE, value |-> <<>>]]

PutGoalBodies ==
    {PutGoalBase}
    \cup {[PutGoalBase EXCEPT !.targetAmount = v] : v \in {0, 4}}
    \cup {[PutGoalBase EXCEPT !.currentAmount = v] : v \in {NotANumber, 0}}
    \cup {[PutGoalBase EXCEPT !.targetDate = 1]}
    \cup {[PutGoalBase EXCEPT !.autoSave =
             [given |-> FALSE, value |-> AutoSaveUnset]]}
    \cup {[PutGoalBase EXCEPT !.milestones = [given |-> TRUE, value |-> <<>>]]}

PutGoalRequests ==
    {<<"u1", 1, b>> : b \in PutGoalBodies}
    \cup {<<"u1", 2, PutGoalBase>>, <<"u2", 1, PutGoalBase>>,
          <<"u1", 0, PutGoalBase>>}

(* the goal operations, served one at a time: contributions and updates    *)
(* by the user between the sweeps                                          *)
NextGoalOps ==
    \/ /\ req[1].pc \in {"idle", "done"}
       /\ \E i \in GoalIds, v \in InputAmounts : AddContribution(i, v, "manual")
    \/ /\ req[1].pc \in {"idle", "done"}
       /\ \E r \in PutGoalRequests : PutGoal(r[1], r[2], r[3])
    \/ SweepFind(1)
    \/ SweepAdd(1)
    \/ SweepAdvance(1)
    \/ SweepReturn(1)
    \/ Tick

(* a goal that the sweep brings forward day by day until its target date,   *)
(* day 2, and a second one, active or paused, that one contribution of its *)
(* rule completes                                                          *)
InitGoalOps ==
    /\ InitLedger
    /\ budgets = {}
    /\ \E st \in {"active", "paused"} :
          goals = <<WithAutoSave(SeedGoal("u1", 4, 1, 2, 2, 0), 1, "daily", 0),
                    WithStatus(WithAutoSave(SeedGoal("u1", 6, 3, 3, 3, 0),
                                            3, "monthly", 0), st)>>
    /\ now = 0
    /\ req = [p \in SweepProcs |-> SweepIdle]

SpecGoalOps == InitGoalOps /\ [][NextGoalOps]_vars

ConcDocs ==
    {f \in [userId : {"u1"}, accountId : AccountIds, categoryId : {"c1"},
            type : TransactionTypes, amount : 0..MaxAmount, date : {1},
            transferAccountId : {NoAccount, "a2"},
            status : {"completed"}] :
        f.type # "transfer" => f.transferAccountId = NoAccount}

InitConc ==
    /\ InitLedger
    /\ budgets = {}
    /\ goals = <<>>
    /\ now = 0
    /\ req = [p \in Procs |-> Idle]

NextConc ==
    \/ \E p \in Procs, f \in ConcDocs : ConcInsert(p, f)
    \/ \E p \in Procs : ConcFindAccount(p)
    \/ \E p \in Procs : ConcFindDestination(p)
    \/ \E p \in Procs : ConcSaveDestination(p)
    \/ \E p \in Procs : ConcSaveAccount(p)

SpecConc == InitConc /\ [][NextConc]_vars

(* ------------------------------- claims ------------------------------- *)
Sign(type) == IF type = "income" THEN 1 ELSE 0 - 1

RECURSIVE NetOf(_, _)
NetOf(docs, a) ==
    IF docs = {} THEN 0
    ELSE LET d == CHOOSE x \in docs : TRUE
         IN  (IF d.accountId = a /\ d.type \in {"income", "expense"}
              THEN Sign(d.type) * d.amount ELSE 0) + NetOf(docs \ {d}, a)

NewDoc(id) == CHOOSE d \in ledger' : d.id = id

(* C1: with only income and expense entries, every account's balance is    *)
(* its initial balance plus the income amounts minus the expense amounts   *)
(* of the entries currently in the ledger.                                 *)
C1_BalanceMatchesLedger ==
    \A a \in AccountIds : accounts[a] = InitialBalance[a] + NetOf(ledger, a)

(* C2: creating a transfer of amount A from X to Y debits X by A and       *)
(* credits Y by A in the same step, or changes no balance at all; never    *)
(* exactly one side.                                                       *)
C2_TransferAtomic ==
    [][\A d \in ledger' \ ledger :
          (response'.op = "create" /\ d.type = "transfer"
             /\ d.accountId \in AccountIds)
          => \/ accounts' = accounts
             \/ /\ d.transferAccountId \in AccountIds
                /\ accounts' = [accounts EXCEPT
                                  ![d.accountId] = @ - d.amount,
                                  ![d.transferAccountId] = @ + d.amount]]_vars

(* C3: a successful edit of an income or expense entry's amount from A to  *)
(* B on the same account changes that balance by the difference of the new *)
(* and the old effect, and by nothing more.                                *)
C3_EditAppliesDifference ==
    [][(response'.op = "put" /\ response'.status = 200 /\ nops' = nops + 1)
          => LET old == Doc(response'.id)
                 new == NewDoc(response'.id)
             IN  (old.accountId = new.accountId
                    /\ old.accountId \in AccountIds
                    /\ old.type \in {"income", "expense"})
                 => accounts' = [accounts EXCEPT ![old.accountId] =
                        @ + Sign(old.type) * (new.amount - old.amount)]]_vars

(* C4: when an entry is created and then deleted, every balance is back at *)
(* its value from before the creation.                                     *)
C4_DeleteReverses ==
    [][(response.op = "create" /\ response.status = 201
          /\ response'.op = "delete" /\ response'.status = 200
          /\ response'.id = response.id /\ nops' = nops + 1)
          => accounts' = before]_vars

(* C5: the persisted balance of every non-credit account is never          *)
(* negative.                                                               *)
C5_NonCreditNonNegative ==
    \A a \in AccountIds : AccountType[a] # "credit" => accounts[a] >= 0

(* C6: no expense or transfer whose amount exceeds the balance of its      *)
(* non-credit source account is added to the ledger, and a create that is  *)
(* not reported as a success changes neither ledger nor balances.          *)
C6_InsufficientFundsRejected ==
    [][(response'.op = "create" /\ nops' = nops + 1)
          => /\ \A d \in ledger' \ ledger :
                   ~(/\ d.type \in {"expense", "transfer"}
                     /\ d.accountId \in AccountIds
                     /\ AccountType[d.accountId] # "credit"
                     /\ d.amount > accounts[d.accountId])
             /\ (response'.status # 201
                   => ledger' = ledger /\ accounts' = accounts)]_vars

NewBudget(id) == CHOOSE b \in budgets' : b.id = id

(* the sum of the amounts of the matching entries, counted per amount      *)
SpentOf(led, b) ==
    LET n(v) == Cardinality({d \in led :
                   /\ d.amount = v
                   /\ d.userId = b.userId /\ d.categoryId = b.categoryId
                   /\ d.type = "expense" /\ d.status = "completed"
                   /\ b.startDate <= d.date /\ d.date <= b.endDate})
        count[v \in 0..MaxAmount] == IF v = 0 THEN 0 ELSE v * n(v) + count[v - 1]
    IN  count[MaxAmount]

C9_NoOverlappingBudgets ==
    /\ \A b \in budgets : b.startDate < b.endDate
    /\ \A b1, b2 \in budgets :
          (b1.id # b2.id /\ b1.userId = b2.userId
             /\ b1.categoryId = b2.categoryId /\ b1.isActive /\ b2.isActive)
          => ~(b1.startDate <= b2.endDate /\ b2.startDate <= b1.endDate)

(* C10: a successful addContribution of a positive amount appends exactly  *)
(* one contribution, raises currentAmount by exactly the amount, marks     *)
(* achieved every unachieved milestone whose threshold is at most the new  *)
(* currentAmount and leaves every other milestone's flag as it was.        *)
C10_AddContribution ==
    [][(response'.op = "addContribution" /\ response'.status = 200
          /\ nops' = nops + 1)
          => LET g == goals[response'.id]
                 h == goals'[response'.id]
                 n == Len(g.contributions)
             IN  /\ Len(h.contributions) = n + 1
                 /\ SubSeq(h.contributions, 1, n) = g.contributions
                 /\ h.contributions[n + 1].amount > 0
                 /\ h.currentAmount
                      = g.currentAmount + h.contributions[n + 1].amount
                 /\ Len(h.milestones) = Len(g.milestones)
                 /\ \A i \in 1..Len(g.milestones) :
                       /\ h.milestones[i].amount = g.milestones[i].amount
                       /\ h.milestones[i].achieved
                            = (g.milestones[i].achieved
                                 \/ g.milestones[i].amount <= h.currentAmount)
                 /\ (h.currentAmount < h.targetAmount => h.status = g.status)
                 /\ \A j \in GoalIds :
                       j # response'.id => goals'[j] = goals[j]]_vars

(* C10 witness: a contribution has just brought the current amount exactly *)
(* to a milestone's threshold, the milestone is achieved at that time, a   *)
(* higher milestone is not, and the goal is still active below its target. *)
C10_Witness ==
    /\ response.op = "addContribution" /\ response.status = 200
    /\ LET g == goals[response.id]
           last == g.contributions[Len(g.contributions)]
       IN  /\ g.status = "active"
           /\ g.currentAmount < g.targetAmount
           /\ \E i \in 1..Len(g.milestones) :
                 /\ g.milestones[i].amount = g.currentAmount
                 /\ g.milestones[i].amount > g.currentAmount - last.amount
                 /\ g.milestones[i].achieved
                 /\ g.milestones[i].achievedDate = last.date
           /\ \E i \in 1..Len(g.milestones) : ~g.milestones[i].achieved

(* C11: every addContribution with an amount of 0 or less is rejected and  *)
(* leaves the persisted goals as they were: no contribution appended, and  *)
(* currentAmount, milestones and status as before the call: a rejected     *)
(* call changes no goal, and no call with such an amount is a step that    *)
(* ends otherwise.                                                         *)
C11_InvalidAmountRejected ==
    [][/\ (response'.op = "addContribution" /\ response'.status = 500
             /\ nops' = nops + 1)
          => goals' = goals
       /\ \A i \in GoalIds, v \in (0 - 1)..0, src \in {"manual", "auto_save"} :
             (response'.op = "addContribution" /\ response'.id = i
                /\ response'.status # 500 /\ nops' = nops + 1)
             => ~AddContribution(i, v, src)]_vars

(* C11 witness: a contribution to a goal whose target date lies ahead has  *)
(* just been rejected, which only an amount of 0 or less brings about.     *)
C11_Witness ==
    /\ response.op = "addContribution" /\ response.status = 500
    /\ goals[response.id].targetDate > now
    /\ goals[response.id].status = "active"

C13_CompletedWhenTargetReached ==
    [][\A i \in GoalIds :
          /\ goals[i].status = "active"
             => goals[i].currentAmount < goals[i].targetAmount
          /\ goals'[i] # goals[i]
             => goals'[i].status
                  = IF goals[i].status = "active"
                       /\ goals'[i].currentAmount >= goals'[i].targetAmount
                    THEN "completed" ELSE goals[i].status]_vars

(* C13 witness: a goal that a sweep's contribution completed has since     *)
(* received a manual contribution and is still completed.                  *)
C13_Witness ==
    \E i \in GoalIds :
       LET g == goals[i]
           n == Len(g.contributions)
       IN  /\ g.status = "completed"
           /\ n >= 3
           /\ g.contributions[n].source = "manual"
           /\ g.contributions[n - 1].source = "auto_save"
           /\ g.currentAmount - g.contributions[n].amount >= g.targetAmount
           /\ g.currentAmount - g.contributions[n].amount
                - g.contributions[n - 1].amount < g.targetAmount

(* the calendar the claims count in                                        *)
MonthStart(m) == 5 * (m \div 2) + (IF m % 2 = 0 THEN 0 ELSE 3)

DayOfMonth(d) == d - MonthStart(MonthOf(d)) + 1

(* one period after day d: the next day, seven days later, or the same day *)
(* of the next calendar month, counted on into the month after when the    *)
(* next month has no such day                                              *)
OnePeriod(d, frequency) ==
    CASE frequency = "daily" -> d + 1
      [] frequency = "weekly" -> d + 7
      [] frequency = "monthly" -> MonthStart(MonthOf(d) + 1) + DayOfMonth(d) - 1

(* C14: when a sweep has returned, every goal that was active with an      *)
(* enabled rule and nextDate at or before the sweep's time has exactly one *)
(* more contribution, of the rule's amount and source auto_save, and its   *)
(* nextDate one period later; every other goal is as it was.               *)
C14_SweepAppliesOnce ==
    req[1].pc = "done"
    => \A i \in GoalIds :
          LET s == req[1].start[i]
              g == goals[i]
              n == Len(s.contributions)
          IN  IF /\ s.status = "active" /\ s.autoSave.enabled
                 /\ s.autoSave.nextDate <= req[1].at
              THEN /\ Len(g.contributions) = n + 1
                   /\ SubSeq(g.contributions, 1, n) = s.contributions
                   /\ g.contributions[n + 1].amount = s.autoSave.amount
                   /\ g.contributions[n + 1].source = "auto_save"
                   /\ g.currentAmount = s.currentAmount + s.autoSave.amount
                   /\ g.autoSave.nextDate
                        = OnePeriod(s.autoSave.nextDate, s.autoSave.frequency)
              ELSE g = s

(* C15: a sweep never ends with an error thrown; when it has returned,     *)
(* every selected goal was either skipped after a failure or has its       *)
(* auto_save contribution persisted.                                       *)
C15_SweepContinues ==
    /\ req[1].pc # "raised"
    /\ req[1].pc = "done"
       => /\ req[1].todo = <<>>
          /\ \A i \in req[1].found \ req[1].failed :
                LET s == req[1].start[i]
                    g == goals[i]
                    n == Len(s.contributions)
                IN  /\ Len(g.contributions) = n + 1
                    /\ g.contributions[n + 1].source = "auto_save"
                    /\ g.contributions[n + 1].amount = s.autoSave.amount
                    /\ g.currentAmount = s.currentAmount + s.autoSave.amount

(* C15 witness: a sweep has returned after the first of two selected goals *)
(* failed and the second one received its contribution.                    *)
C15_Witness ==
    /\ req[1].pc = "done"
    /\ req[1].found = {1, 2}
    /\ req[1].failed = {1}
    /\ Len(goals[2].contributions) = Len(req[1].start[2].contributions) + 1
    /\ goals[2].currentAmount > req[1].start[2].currentAmount

(* C16: a goal whose processing failed in a sweep is stored as it was when *)
(* the sweep started.                                                      *)
C16_FailedGoalUnchanged ==
    \A i \in req[1].failed : goals[i] = req[1].start[i]

(* the number of auto_save contributions of a goal                         *)
AutoSaves(g) ==
    Cardinality({k \in 1..Len(g.contributions) :
                   g.contributions[k].source = "auto_save"})

(* the number of due dates from day d up to day t                          *)
RECURSIVE DueDates(_, _, _)
DueDates(d, frequency, t) ==
    IF d > t THEN 0 ELSE 1 + DueDates(OnePeriod(d, frequency), frequency, t)

(* C17: with sweeps that overlap, no goal has more auto_save contributions *)
(* than due dates of its rule, which starts at day 0, have come.           *)
C17_NoDoubleCredit ==
    \A i \in GoalIds :
       AutoSaves(goals[i]) <= DueDates(0, goals[i].autoSave.frequency, now)

(* a transfer without a destination, or with its source as destination    *)
InvalidTransfer(d) ==
    /\ d.type = "transfer"
    /\ (d.transferAccountId = NoAccount \/ d.transferAccountId = d.accountId)

(* C18: saving a transfer whose destination is missing or is its source,   *)
(* as a new entry or as the update of an entry, is rejected and leaves the *)
(* ledger and every balance unchanged; an income or expense entry is saved *)
(* without a destination.                                                  *)
C18_InvalidTransferRejected ==
    [][/\ \A f \in NewDocs(TransactionTypes) :
             (InvalidTransfer(f) /\ TransactionCreate(f))
             => /\ response'.status = 500
                /\ ledger' = ledger /\ accounts' = accounts
       /\ \A i \in EntryIds, b \in Bodies :
             (/\ HasDoc(i)
              /\ b.accountId \in AccountIds
              /\ InvalidTransfer([Doc(i) EXCEPT !.accountId = b.accountId])
              /\ PutTransaction(Doc(i).userId, i, b))
             => /\ response'.status = 500
                /\ ledger' = ledger /\ accounts' = accounts
       /\ \A f \in NewDocs({"income", "expense"}) :
             TransactionCreate(f) => response'.status = 201]_vars

(* the sum of the amounts of a goal's contributions                        *)
RECURSIVE SumContributions(_)
SumContributions(c) ==
    IF c = <<>> THEN 0 ELSE Head(c).amount + SumContributions(Tail(c))

(* C19: the difference between a goal's currentAmount and the sum of its   *)
(* recorded contributions never changes: currentAmount is its value at     *)
(* creation plus the contributions appended since, whatever operation      *)
(* runs, the goal update included.                                         *)
C19_CurrentAmountFromContributions ==
    [][\A i \in GoalIds :
          goals'[i].currentAmount - SumContributions(goals'[i].contributions)
            = goals[i].currentAmount
                - SumContributions(goals[i].contributions)]_vars

(* C20: creating, updating or deleting a ledger entry leaves every budget  *)
(* as it was, and the stored spent of a budget changes only in a budget    *)
(* create, read by id, update or refresh, the operations that call         *)
(* updateSpent.                                                            *)
C20_SpentChangesOnlyOnDemand ==
    [][/\ (response'.op \in {"create", "post", "put", "delete"}
             /\ nops' = nops + 1)
          => budgets' = budgets
       /\ \A b \in budgets :
             (\E c \in budgets' : c.id = b.id /\ c.spent # b.spent)
             => /\ nops' = nops + 1
                /\ response'.op \in {"postBudget", "getBudget", "putBudget",
                                     "refresh"}
                /\ response'.id = b.id]_vars

(* C20 witness: an expense that a budget's period covers has just been     *)
(* created and the budget's stored spent does not count it.                *)
C20_Witness ==
    /\ response.op = "create" /\ response.status = 201
    /\ \E b \in budgets :
          /\ Doc(response.id) \in SpentMatch(ledger, b)
          /\ b.spent # SpentOf(ledger, b)

(* the effect of one entry on one account                                  *)
EffectOn(d, a) ==
    (IF d.accountId = a
     THEN (IF d.type = "income" THEN d.amount ELSE 0 - d.amount) ELSE 0)
    + (IF d.type = "transfer" /\ d.transferAccountId = a THEN d.amount ELSE 0)

RECURSIVE TotalEffect(_, _)
TotalEffect(docs, a) ==
    IF docs = {} THEN 0
    ELSE LET d == CHOOSE x \in docs : TRUE
         IN  EffectOn(d, a) + TotalEffect(docs \ {d}, a)

(* C7: when the interleaved creation requests have all finished without a  *)
(* failed account write, every balance reflects the effects of all the     *)
(* entries they created.                                                   *)
C7_NoLostUpdate ==
    (\A p \in Procs : req[p].pc \in {"done", "rejected"})
    => \A a \in AccountIds :
          accounts[a] = InitialBalance[a] + TotalEffect(ledger, a)

(* C21: the percentage a budget reports is spent / amount * 100, and its   *)
(* status is exceeded exactly when spent has reached the amount, warning   *)
(* exactly when the ratio is between the alert threshold and 100 percent,  *)
(* on_track otherwise; a budget that has spent less than its amount is     *)
(* never reported as exceeded                                              *)
C21_StatusFromRatio ==
    response.op = "toJSON" =>
        LET b == Budget(response.id)
            exceeded == b.spent * 100 >= 100 * b.amount
            warning == /\ b.spent * 100 >= b.alertThreshold * b.amount
                       /\ ~exceeded
        IN  /\ response.percentageUsed * b.amount = b.spent * 100
            /\ response.budgetStatus = "exceeded" <=> exceeded
            /\ response.budgetStatus = "warning" <=> warning
            /\ response.budgetStatus = "on_track" <=> ~exceeded /\ ~warning

C23_MoveReversesAndApplies ==
    [][(response'.op = "put" /\ response'.status = 200 /\ nops' = nops + 1)
          => LET old == Doc(response'.id)
                 new == NewDoc(response'.id)
             IN  (old.accountId # new.accountId
                    /\ old.accountId \in AccountIds
                    /\ new.accountId \in AccountIds
                    /\ old.type \in {"income", "expense"})
                 => accounts' = [accounts EXCEPT
                        ![old.accountId] = @ - Sign(old.type) * old.amount,
                        ![new.accountId] = @ + Sign(old.type) * new.amount]]_vars

(* the account of a request is one of the caller's, its category a default *)
(* one or one of the caller's                                              *)
OwnAccount(user, a) == a \in AccountIds /\ AccountUser[a] = user

UsableCategory(user, c) ==
    c \in Categories /\ (CategoryDefault[c] \/ CategoryUser[c] = user)

(* C25: the creation or the edit of an entry whose account is not the      *)
(* caller's, or whose category is neither a default one nor the caller's,  *)
(* is answered NotFound and leaves the ledger and the balances as they     *)
(* were                                                                    *)
C25_ForeignReferenceRejected ==
    [][(response'.op \in {"post", "put"} /\ nops' = nops + 1)
          => \A u \in Users, b \in CategoryBodies :
                (~OwnAccount(u, b.accountId)
                   \/ ~UsableCategory(u, b.categoryId))
                => /\ PostTransaction(u, b)
                      => (response'.status = 404 /\ ledger' = ledger
                            /\ accounts' = accounts)
                   /\ \A i \in EntryIds :
                        PutTransaction(u, i, b)
                        => (response'.status = 404 /\ ledger' = ledger
                              /\ accounts' = accounts)]_vars

(* C24: the spent amount that the listing of the budgets and the dashboard *)
(* return for a budget is the amount updateSpent computes for that budget  *)
(* and the same ledger                                                     *)
C24_ListedSpentIsUpdateSpent ==
    response.op \in {"getBudgets", "getDashboard"}
    => \A r \in response.data : r.spent = SpentOf(ledger, Budget(r.id))

(* C26: a goal whose status is completed, paused or cancelled when a sweep *)
(* starts is left alone by that sweep: no contribution appended, no change *)
(* of currentAmount, no advance of nextDate, even with its rule enabled    *)
(* and its nextDate reached                                                *)
C26_InactiveGoalSkipped ==
    [][\A p \in SweepProcs, i \in GoalIds :
          (req'[p] # req[p] /\ req[p].pc \in {"add", "advance"}
             /\ req[p].start[i].status # "active")
          => /\ i \notin req[p].found
             /\ goals'[i] = goals[i]]_vars

(* a goal completed by an update, its rule enabled and its nextDate        *)
(* reached, after a later sweep that has processed the other goal          *)
C26_Witness ==
    /\ req[1].pc = "done"
    /\ req[1].found # {}
    /\ \E i \in GoalIds :
          /\ req[1].start[i].status = "completed"
          /\ req[1].start[i].autoSave.enabled
          /\ req[1].start[i].autoSave.nextDate # NoDate
          /\ req[1].start[i].autoSave.nextDate <= req[1].at
          /\ goals[i] = req[1].start[i]

(* C27: a milestone is achieved exactly when the goal's currentAmount has  *)
(* at some time, the creation and every update of the goal included, been  *)
(* at or above the milestone's amount: a step leaves a milestone achieved  *)
(* exactly when it was achieved before or the amount after the step has    *)
(* reached it                                                              *)
C27_MilestoneIffReached ==
    [][\A i \in GoalIds : \A k \in 1..Len(goals'[i].milestones) :
          k <= Len(goals[i].milestones)
          => (goals'[i].milestones[k].achieved
                <=> \/ goals[i].milestones[k].achieved
                    \/ goals'[i].currentAmount
                         >= goals'[i].milestones[k].amount)]_vars

(* C28: processAutoSaves returns the number of goals that were due when it *)
(* started (rule enabled, nextDate reached, status active), the goals      *)
(* whose contribution or advance failed included                           *)
C28_SweepReturnsDueCount ==
    \A p \in SweepProcs :
       req[p].pc = "done"
       => req[p].count =
            Cardinality({i \in GoalIds :
               /\ req[p].start[i].autoSave.enabled
               /\ req[p].start[i].autoSave.nextDate # NoDate
               /\ req[p].start[i].autoSave.nextDate <= req[p].at
               /\ req[p].start[i].status = "active"})

(* a sweep that has returned 2 after the saves of one of its goals failed  *)
C28_Witness ==
    /\ req[1].pc = "done"
    /\ req[1].count = 2
    /\ Cardinality(req[1].failed) = 1

(* C29: no save of a goal succeeds once its targetDate is not after the    *)
(* current time: from then on neither addContribution nor a sweep (nor any *)
(* other operation) changes the stored contributions, currentAmount,       *)
(* milestones, status or nextDate, and a goal that a sweep selected after  *)
(* its target date is selected again by the next sweep                     *)
C29_NoSaveAfterTargetDate ==
    [][\A i \in GoalIds :
          /\ goals[i].targetDate <= now => goals'[i] = goals[i]
          /\ \A p \in SweepProcs :
                (req[p].pc = "done" /\ i \in req[p].found
                   /\ goals[i].targetDate <= req[p].at
                   /\ req'[p].pc \in {"add", "return"})
                => i \in req'[p].found]_vars

(* after its target date goal 1 was selected by a sweep, whose saves       *)
(* failed, and a contribution by hand was refused: the goal is as it was   *)
C29_Witness ==
    /\ goals[1].targetDate <= req[1].at
    /\ req[1].pc = "done"
    /\ 1 \in req[1].found
    /\ 1 \in req[1].failed
    /\ response.op = "addContribution"
    /\ response.id = 1
    /\ response.status = 500
    /\ goals[1] = req[1].start[1]

(* C30: the balance effect of an entry is applied at every successful save *)
(* whatever the entry's status: a pending or cancelled income or expense   *)
(* moves the balance of its account by its amount as a completed one does  *)
(* (the balance stays where the account's own save refuses the result),    *)
(* while a refresh counts the completed expenses only                      *)
C30_EffectWhateverStatus ==
    [][/\ (response'.op = "create" /\ response'.status = 201
             /\ nops' = nops + 1)
          => LET d == NewDoc(response'.id)
                 v == accounts[d.accountId] + Sign(d.type) * d.amount
             IN  accounts' = [accounts EXCEPT ![d.accountId] =
                                 IF v >= MinBalance THEN v ELSE @]
       /\ (response'.op = "refresh" /\ response'.status = 200
             /\ nops' = nops + 1)
          => NewBudget(response'.id).spent
               = SpentOf(ledger, NewBudget(response'.id))]_vars

(* an expense saved as pending or cancelled has lowered the balance of its *)
(* account                                                                 *)
C30_Witness ==
    /\ response.op = "create" /\ response.status = 201
    /\ HasDoc(response.id)
    /\ Doc(response.id).status \in {"pending", "cancelled"}
    /\ Doc(response.id).type = "expense"
    /\ accounts[Doc(response.id).accountId]
         = before[Doc(response.id).accountId] - Doc(response.id).amount

====
